---- MODULE Spec2Model ----
(***************************************************************************)
(* Model of the refresh scheduling and power-policy loop of the e-ink      *)
(* weather display (rpiweather): Scheduler.run, the quiet-hours and        *)
(* battery policy, the wake-up provider chain, the remote stay-awake       *)
(* check and the weather / air-quality fetch.                              *)
(*                                                                         *)
(* Time is the wall clock in seconds.  One action models one step of the   *)
(* loop body of Scheduler.run between two blocking calls.                  *)
(***************************************************************************)
EXTENDS Integers, Sequences, FiniteSets, TLC

VARIABLES
    config,               \* UserSettings: refresh_minutes, poweroff_soc, quiet_hours
    once,                 \* argument of Scheduler.run
    preview,              \* argument of Scheduler.run
    clock,                \* wall clock, seconds (TimeUtils.now_localized)
    pc,                   \* position of the loop body
    iter,                 \* number of loop iterations started
    now,                  \* local 'now' of the iteration
    wake_resp,            \* response of the stay-awake endpoint in this iteration
    stay_awake,           \* result of wake_provider.should_stay_awake()
    in_quiet,             \* local 'in_quiet'
    full_refresh_needed,  \* local 'full_refresh_needed'
    fetch_in,             \* outcomes of the two HTTP requests of the cycle
    fetch_out,            \* result of WeatherAPI.fetch_weather in this cycle
    ok,                   \* local 'ok'
    error_streak,         \* display.error_streak
    last_full_refresh,    \* display.last_full_refresh
    soc,                  \* local 'soc'
    sleep_min,            \* local 'sleep_min'
    wake_dt,              \* local 'wake_dt'
    trail,                \* steps taken by the current iteration, in order
    slept,                \* argument of the last time.sleep of the iteration
    attempts,             \* calls of display.fetch_and_render
    failed_since_ok,      \* cycles that returned False since the last True
    provider_calls,       \* providers whose set_wakeup was called, in order
    set_wakeup_results,   \* what each provider's set_wakeup returns in the last schedule_wakeup
    wakeup_results,       \* return values of PowerManager.schedule_wakeup
    shutdown_calls,       \* calls of PowerManager.shutdown
    call,                 \* a policy function and the arguments it is applied to
    ret                   \* the value that application returned

vars == <<config, once, preview, clock, pc, iter, now, wake_resp, stay_awake, in_quiet,
          full_refresh_needed, fetch_in, fetch_out, ok, error_streak,
          last_full_refresh, soc, sleep_min, wake_dt, trail, slept, attempts,
          failed_since_ok, provider_calls, set_wakeup_results, wakeup_results,
          shutdown_calls, call, ret>>

----------------------------------------------------------------------------
(* Bounds of the model *)

MaxIter == 4

\* largest refresh_minutes and largest charge level the policy is applied to
MaxBase == 16
MaxSocInput == 110

\* largest wind speed (mph) and largest bearing (degrees) that are converted
MaxSpeed == 90
MaxBearing == 400

----------------------------------------------------------------------------
(* Program constants *)

FullRefreshHours == 6
BackoffThreshold == 3
BackoffFactor == 4
DefaultPoweroffSoc == 8
DefaultSoc == 100

full_refresh_interval == FullRefreshHours * 3600

DefaultRefreshMinutes == 120

RefreshMinutesValues == {DefaultRefreshMinutes}

NoQuietHours == [set |-> FALSE, start |-> 0, end |-> 0]

QuietHoursValues ==
    {NoQuietHours,
     [set |-> TRUE, start |-> 1, end |-> 5],
     [set |-> TRUE, start |-> 22, end |-> 6]}

StartClocks == {2 * 3600 + 1800, 12 * 3600, 23 * 3600}

FetchDurations == {1, 1800}

SocValues == {4, 12, DefaultSoc}

----------------------------------------------------------------------------
(* Quiet-hours and battery policy *)

Hour(ts) == (ts \div 3600) % 24

\* variant: the end hour belongs to the window
is_quiet_time_EndInclusive(quiet, ts) ==
    IF quiet.start < quiet.end
    THEN quiet.start <= Hour(ts) /\ Hour(ts) <= quiet.end
    ELSE Hour(ts) >= quiet.start \/ Hour(ts) <= quiet.end

is_quiet_time(quiet, ts) ==
    IF quiet.start < quiet.end
    THEN quiet.start <= Hour(ts) /\ Hour(ts) < quiet.end
    ELSE Hour(ts) >= quiet.start \/ Hour(ts) < quiet.end

in_quiet_hours(ts, quiet) ==
    IF ~quiet.set THEN FALSE ELSE is_quiet_time(quiet, ts)

\* variant: the candidate is always moved to the following day
seconds_until_quiet_end_NextDay(ts, quiet) ==
    IF ~quiet.set \/ ~in_quiet_hours(ts, quiet)
    THEN 0
    ELSE (((ts - (ts % 86400)) + quiet.end * 3600) + 86400) - ts

\* variant: the candidate is never moved to the following day
seconds_until_quiet_end_Today(ts, quiet) ==
    IF ~quiet.set \/ ~in_quiet_hours(ts, quiet)
    THEN 0
    ELSE ((ts - (ts % 86400)) + quiet.end * 3600) - ts

seconds_until_quiet_end(ts, quiet) ==
    IF ~quiet.set \/ ~in_quiet_hours(ts, quiet)
    THEN 0
    ELSE LET candidate == (ts - (ts % 86400)) + quiet.end * 3600
         IN  IF candidate <= ts THEN (candidate + 86400) - ts
                                ELSE candidate - ts

\* variant: the 1.5x tier halves the base first
get_refresh_delay_minutes_HalvedFirst(base_minutes, s) ==
    IF s <= 5 THEN base_minutes * 4
    ELSE IF s <= 15 THEN base_minutes * 3
    ELSE IF s <= 25 THEN base_minutes * 2
    ELSE IF s <= 50 THEN (base_minutes \div 2) * 3
    ELSE base_minutes

\* variant: the 1.5x tier is rounded up
get_refresh_delay_minutes_RoundedUp(base_minutes, s) ==
    IF s <= 5 THEN base_minutes * 4
    ELSE IF s <= 15 THEN base_minutes * 3
    ELSE IF s <= 25 THEN base_minutes * 2
    ELSE IF s <= 50 THEN (base_minutes * 3 + 1) \div 2
    ELSE base_minutes

get_refresh_delay_minutes(base_minutes, s) ==
    IF s <= 5 THEN base_minutes * 4
    ELSE IF s <= 15 THEN base_minutes * 3
    ELSE IF s <= 25 THEN base_minutes * 2
    ELSE IF s <= 50 THEN (base_minutes * 3) \div 2
    ELSE base_minutes

\* variant: quiet hours do not power the device off
should_power_off_SocOnly(cfg, s, ts) == s <= cfg.poweroff_soc

should_power_off(cfg, s, ts) ==
    IF s <= cfg.poweroff_soc THEN TRUE
    ELSE IF cfg.quiet_hours.set /\ in_quiet_hours(ts, cfg.quiet_hours) THEN TRUE
    ELSE FALSE

----------------------------------------------------------------------------
(* Validation of the quiet-hours window (UserSettings.load) *)

\* hours a config.yaml can carry: the valid ones and one beyond each end
RawHours == -1..24

RawWindows ==
    {NoQuietHours}
    \cup {[set |-> TRUE, start |-> s, end |-> e] : s, e \in RawHours}

\* Field(..., ge=0, le=23) on start and end
QuietHoursFieldsValid(q) ==
    q.start >= 0 /\ q.start <= 23 /\ q.end >= 0 /\ q.end <= 23

\* variant: the window class without the start != end validator
check_start_not_equal_end_Missing(q) == TRUE

\* TRUE when the validator returns, FALSE when it raises ValueError
check_start_not_equal_end(q) == q.start # q.end

\* UserSettings.load: model_validate, ValidationError re-raised as RuntimeError
load(raw) ==
    IF ~raw.set THEN [raised |-> "", quiet_hours |-> NoQuietHours]
    ELSE IF QuietHoursFieldsValid(raw) /\ check_start_not_equal_end(raw)
    THEN [raised |-> "", quiet_hours |-> raw]
    ELSE [raised |-> "RuntimeError", quiet_hours |-> NoQuietHours]

\* the windows a loaded configuration can carry
LoadedWindows ==
    {load(raw).quiet_hours : raw \in {r \in RawWindows : load(r).raised = ""}}

----------------------------------------------------------------------------
(* Remote stay-awake check (HttpWakeStateProvider) *)

\* JSON values a body can carry under the key "awake", by their JSON text
JsonValues ==
    {"true", "false", "null", "0", "1", "str_empty", "str_false",
     "list_empty", "list_nonempty"}

\* Python's bool(x) on the decoded JSON value
Truthy(v) == v \in {"true", "1", "str_false", "list_nonempty"}

NoResponse == [net |-> "none", status |-> 0, shape |-> "none", awake |-> "none"]

WakeResponses ==
    {[net |-> n, status |-> 0, shape |-> "none", awake |-> "none"] :
        n \in {"timeout", "connection_error"}}
    \cup {[net |-> "ok", status |-> 404, shape |-> "object_no_key", awake |-> "none"]}
    \cup {[net |-> "ok", status |-> 200, shape |-> sh, awake |-> "none"] :
            sh \in {"not_json", "non_object", "object_no_key"}}
    \cup {[net |-> "ok", status |-> 200, shape |-> "object", awake |-> v] :
            v \in JsonValues}

\* the responses the scheduler model draws from: one of each kind
SchedulerWakeResponses ==
    {r \in WakeResponses :
        /\ r.net # "connection_error"
        /\ r.awake \in {"none", "true", "false", "str_false"}}

\* data.get("awake", False)
AwakeField(resp) ==
    IF resp.shape = "object" THEN resp.awake ELSE "false"

\* "True", "False", or "raise" when an exception leaves the method
should_stay_awake(resp) ==
    IF resp.net # "ok" THEN "False"                 \* RequestException
    ELSE IF resp.status # 200 THEN "False"
    ELSE IF resp.shape = "not_json" THEN "False"    \* ValueError from resp.json()
    ELSE IF resp.shape = "non_object" THEN "raise"  \* AttributeError from data.get
    ELSE IF Truthy(AwakeField(resp)) THEN "True" ELSE "False"

----------------------------------------------------------------------------
(* Weather and air-quality fetch (WeatherAPI) *)

AqiLabels == <<"", "Good", "Fair", "Moderate", "Poor", "Very Poor">>

AqiInputs == {-1, 0, 2, 6}

NoRequest == [net |-> "none", status |-> 0, shape |-> "none", aqi |-> 0,
              components |-> "none"]

AirQualityOutcomes ==
    {[net |-> "error", status |-> 0, shape |-> "none", aqi |-> 0, components |-> "none"],
     [net |-> "ok", status |-> 503, shape |-> "none", aqi |-> 0, components |-> "none"]}
    \cup {[net |-> "ok", status |-> 200, shape |-> sh, aqi |-> 0, components |-> "none"] :
            sh \in {"not_json", "non_object", "no_list", "empty_list", "no_main",
                    "aqi_not_int", "no_components"}}
    \cup {[net |-> "ok", status |-> 200, shape |-> "full", aqi |-> a, components |-> c] :
            a \in AqiInputs, c \in {"valid", "invalid"}}

\* the statuses HTTP_ERROR_MAP has a text for
HttpErrorMapKeys == {400, 401, 403, 404, 429, 500, 502, 503, 504}

\* statuses of the main response: success, one of the table, one outside it
MainStatuses == {200, 401, 418}

\* has_message: the body is a JSON object with the key "message"
MainOutcomes ==
    {[net |-> "error", status |-> 0, shape |-> "none", has_message |-> FALSE]}
    \cup {o \in [net : {"ok"}, status : MainStatuses,
                  shape : {"not_json", "non_object", "object_invalid", "object_valid"},
                  has_message : BOOLEAN] :
            o.has_message => o.status # 200}

\* the air-quality request is issued once the main body has been decoded
AirQualityRequested(main) ==
    main.net = "ok" /\ main.status = 200 /\ main.shape # "not_json"

FetchInputs ==
    {inp \in [main : MainOutcomes, aq : AirQualityOutcomes \cup {NoRequest}] :
        /\ (inp.aq = NoRequest) <=> ~AirQualityRequested(inp.main)
        /\ inp.main.has_message => inp.main.shape \in {"object_invalid", "object_valid"}}

\* the cycles the scheduler model draws from: one of each kind
SchedulerFetchInputs ==
    {inp \in FetchInputs :
        /\ inp.main.shape \in {"none", "not_json", "object_valid"}
        /\ inp.main.status \in {200, 401}
        /\ inp.main.status = 401 =>
              (inp.main.shape = "object_valid" /\ inp.main.has_message)
        /\ inp.aq.shape \in {"none", "not_json", "full"}
        /\ inp.aq.net # "error"
        /\ inp.aq.shape = "full" => (inp.aq.aqi = 2 /\ inp.aq.components = "valid")}

NoFetch == [main |-> [net |-> "none", status |-> 0, shape |-> "none",
                      has_message |-> FALSE],
            aq |-> NoRequest]

PlaceholderDict == [raised |-> "", aqi |-> "N/A", has_value |-> FALSE,
                    aqi_value |-> 0, components |-> "none"]

AqRaise(exc) == [raised |-> exc, aqi |-> "", has_value |-> FALSE,
                 aqi_value |-> 0, components |-> "none"]

\* aqi_labels[aqi_value] with Python's list indexing (negative indices wrap)
LabelIndexable(v) == v >= -Len(AqiLabels) /\ v < Len(AqiLabels)
LabelAt(v) == IF v >= 0 THEN AqiLabels[v + 1] ELSE AqiLabels[Len(AqiLabels) + v + 1]

fetch_air_quality(aq) ==
    IF aq.net # "ok" THEN PlaceholderDict
    ELSE IF aq.status # 200 THEN PlaceholderDict
    ELSE IF aq.shape = "not_json" THEN AqRaise("ValueError")
    ELSE IF aq.shape \in {"non_object", "aqi_not_int"} THEN AqRaise("TypeError")
    ELSE IF aq.shape \in {"no_list", "empty_list", "no_main"} THEN PlaceholderDict
    ELSE IF ~LabelIndexable(aq.aqi) THEN PlaceholderDict
    ELSE IF aq.shape = "no_components" THEN PlaceholderDict
    ELSE [raised |-> "", aqi |-> LabelAt(aq.aqi), has_value |-> TRUE,
          aqi_value |-> aq.aqi, components |-> aq.components]

\* merged_raw["air_quality"] as built by fetch_weather
MergedAirQuality(raw) ==
    IF raw.raised # ""
    THEN [aqi |-> "N/A", aqi_value |-> 0, components |-> "none"]
    ELSE [aqi |-> raw.aqi,
          aqi_value |-> IF raw.has_value THEN raw.aqi_value ELSE 0,
          components |-> raw.components]

\* field constraints of the AirQuality model
AirQualityValid(a) ==
    a.aqi_value >= 1 /\ a.aqi_value <= 5 /\ a.components # "invalid"

WeatherAPIErrors == {"NetworkError", "WeatherAPIError"}

\* an exception without the attributes of WeatherAPIError
Raised(exc) == [raised |-> exc, aqi |-> "", aqi_value |-> 0, code |-> 0, message |-> ""]

\* WeatherAPIError(code, message) or a subclass of it
RaisedAPIError(exc, code, message) ==
    [raised |-> exc, aqi |-> "", aqi_value |-> 0, code |-> code, message |-> message]

NoResult == [raised |-> "none", aqi |-> "", aqi_value |-> 0, code |-> 0, message |-> ""]

\* HTTP_ERROR_MAP.get(resp.status_code, resp.text)
TableOrText(status) ==
    IF status \in HttpErrorMapKeys THEN "table_entry" ELSE "response_text"

\* resp.json().get("message", HTTP_ERROR_MAP.get(resp.status_code, resp.text))
BodyMessage(main) ==
    IF main.has_message THEN "body_message" ELSE TableOrText(main.status)

fetch_weather(main, aq) ==
    IF main.net # "ok" THEN RaisedAPIError("NetworkError", 0, "network_error")
    ELSE IF main.status # 200
         THEN IF main.shape = "non_object" THEN Raised("AttributeError")
              ELSE IF main.shape = "not_json"
                   THEN RaisedAPIError("WeatherAPIError", main.status,
                                       TableOrText(main.status))
              ELSE RaisedAPIError("WeatherAPIError", main.status, BodyMessage(main))
    ELSE IF main.shape = "not_json" THEN Raised("JSONDecodeError")
    ELSE IF main.shape = "non_object" THEN Raised("TypeError")
    ELSE LET merged == MergedAirQuality(fetch_air_quality(aq))
         IN  IF main.shape = "object_invalid" \/ ~AirQualityValid(merged)
             THEN Raised("ValidationError")
             ELSE [raised |-> "", aqi |-> merged.aqi, aqi_value |-> merged.aqi_value,
                   code |-> 0, message |-> ""]

\* parameters of ErrorRenderer.__init__ and the keywords it is called with
ErrorRendererInitParams == {"html_renderer", "display", "template"}
ErrorRendererInitKeywords == {"html_renderer", "display_driver"}

\* parameters of Display.display_image and the keyword render_error passes
DisplayImageParams == {"image_path", "mode"}
RenderErrorDisplayKeywords == {"full_refresh"}

\* WeatherDisplay._render_error_screen: a call with a keyword the callee
\* does not have raises TypeError before the callee's body runs
render_error_screen ==
    IF ~(ErrorRendererInitKeywords \subseteq ErrorRendererInitParams)
    THEN [raised |-> "TypeError", error_screens |-> 0, display_calls |-> 0]
    ELSE IF ~(RenderErrorDisplayKeywords \subseteq DisplayImageParams)
    THEN [raised |-> "TypeError", error_screens |-> 1, display_calls |-> 0]
    ELSE [raised |-> "", error_screens |-> 1, display_calls |-> 1]

\* display_driver.display_image calls made by render_dashboard
render_dashboard(preview_arg) == IF preview_arg THEN 0 ELSE 1

\* returned: "True", "False", or "raise" when an exception leaves the
\* method; error_screens: error screens rendered to an image;
\* display_calls: images shown by the display driver
FetchAndRenderEffects(main, aq, preview_arg) ==
    LET r == fetch_weather(main, aq)
    IN  IF r.raised \in WeatherAPIErrors
        THEN IF preview_arg
             THEN [returned |-> "False", error_screens |-> 0, display_calls |-> 0]
             ELSE [returned |-> IF render_error_screen.raised = "" THEN "False"
                                ELSE "raise",
                   error_screens |-> render_error_screen.error_screens,
                   display_calls |-> render_error_screen.display_calls]
        ELSE IF r.raised # ""
        THEN [returned |-> "raise", error_screens |-> 0, display_calls |-> 0]
        ELSE [returned |-> "True", error_screens |-> 0,
              display_calls |-> render_dashboard(preview_arg)]

fetch_and_render(main, aq, preview_arg) ==
    FetchAndRenderEffects(main, aq, preview_arg).returned

----------------------------------------------------------------------------
(* Wake-up provider chain and shutdown (PowerManager) *)

NumProviders == 2

ProviderResults == [1..NumProviders -> BOOLEAN]

\* before any call of schedule_wakeup
NoProviderResults == [i \in 1..NumProviders |-> FALSE]

\* variant: every provider is called, whatever the earlier ones returned
ProvidersCalled_All(results) == [i \in 1..NumProviders |-> i]

\* providers whose set_wakeup is called, given what each would return
ProvidersCalled(results) ==
    LET succ == {i \in 1..NumProviders : results[i]}
        last == IF succ = {} THEN NumProviders
                ELSE CHOOSE i \in succ : \A j \in succ : i <= j
    IN  [i \in 1..last |-> i]

schedule_wakeup(results) ==
    \E i \in 1..NumProviders : results[i]

ShutdownOutcomes == {"ok", "CalledProcessError", "FileNotFoundError", "PermissionError"}

\* TRUE when PowerManager.shutdown returns normally
shutdown(outcome) ==
    outcome \in {"ok", "CalledProcessError", "FileNotFoundError"}

----------------------------------------------------------------------------
(* Unit conversions (UnitConverter) *)

\* Speeds are counted in half miles per hour and bearings in quarter
\* degrees, so that 0.5 mph and the bearings half-way between two
\* compass points (11.25, 33.75, ...) are whole numbers.

DIRECTIONS ==
    <<"N", "NNE", "NE", "ENE", "E", "ESE", "SE", "SSE",
      "S", "SSW", "SW", "WSW", "W", "WNW", "NW", "NNW">>

BEAUFORT_LIMITS == <<1, 4, 7, 12, 18, 24, 31, 38, 46, 54, 63, 73>>

\* variant: the index is cut off instead of rounded
deg_to_cardinal_Truncated(deg_quarters) ==
    DIRECTIONS[(((deg_quarters % (4 * 360)) \div 90) % 16) + 1]

\* DIRECTIONS[int((deg % 360) / 22.5 + 0.5) % 16]
deg_to_cardinal(deg_quarters) ==
    DIRECTIONS[(((2 * (deg_quarters % (4 * 360)) + 90) \div 180) % 16) + 1]

\* variant: a speed equal to a limit stays in the lower class
beaufort_from_speed_AtLimitBelow(speed_halves) ==
    LET below == {i \in 1..Len(BEAUFORT_LIMITS) :
                    speed_halves <= 2 * BEAUFORT_LIMITS[i]}
    IN  IF below = {} THEN 12
        ELSE (CHOOSE i \in below : \A j \in below : i <= j) - 1

\* the first bft of enumerate(BEAUFORT_LIMITS) with speed_mph < lim, else 12
beaufort_from_speed(speed_halves) ==
    LET below == {i \in 1..Len(BEAUFORT_LIMITS) :
                    speed_halves < 2 * BEAUFORT_LIMITS[i]}
    IN  IF below = {} THEN 12
        ELSE (CHOOSE i \in below : \A j \in below : i <= j) - 1

----------------------------------------------------------------------------
(* E-paper panel (IT8951Display) *)

RefreshModes == {"FULL", "GREYSCALE"}

\* RefreshMode.FULL = 0, RefreshMode.GREYSCALE = 2
ModeValue(mode) == IF mode = "FULL" THEN 0 ELSE 2

\* how the attached driver answers: set_vcom with millivolts, set_vcom
\* with volts, get_vcom
DriverAnswers ==
    [set_vcom_mv : {"ok", "AttributeError", "TypeError"},
     set_vcom_v : {"ok", "AttributeError"},
     get_vcom : {"ok", "raise"}]

\* a driver call: its method and, for display, the mode value
DriverCall(method, value) == [method |-> method, value |-> value]

\* __init__: without simulate and without a driver given the hardware
\* library is imported; an ImportError switches to simulation
IT8951Display_init(simulate_arg, epd_driver_given, import_ok) ==
    IF ~simulate_arg /\ ~epd_driver_given
    THEN [simulate |-> ~import_ok, attached |-> import_ok]
    ELSE [simulate |-> simulate_arg, attached |-> epd_driver_given]

\* _apply_vcom: millivolts first, volts after AttributeError or TypeError,
\* then the read-back, whose failure is ignored
apply_vcom(drv) ==
    IF drv.set_vcom_mv = "ok"
    THEN [raised |-> FALSE,
          calls |-> <<DriverCall("set_vcom_mv", 0), DriverCall("get_vcom", 0)>>]
    ELSE IF drv.set_vcom_v = "ok"
    THEN [raised |-> FALSE,
          calls |-> <<DriverCall("set_vcom_mv", 0), DriverCall("set_vcom_v", 0),
                      DriverCall("get_vcom", 0)>>]
    ELSE [raised |-> TRUE,
          calls |-> <<DriverCall("set_vcom_mv", 0), DriverCall("set_vcom_v", 0)>>]

\* variant: the panel is not put to sleep after the image
display_image_NoSleep(self, mode, drv) ==
    IF self.simulate \/ ~self.attached
    THEN [raised |-> FALSE, calls |-> <<>>, last_refresh_mode |-> mode]
    ELSE LET vcom == apply_vcom(drv) IN
         IF vcom.raised
         THEN [raised |-> TRUE,
               calls |-> <<DriverCall("init", 0)>> \o vcom.calls,
               last_refresh_mode |-> mode]
         ELSE [raised |-> FALSE,
               calls |-> <<DriverCall("init", 0)>> \o vcom.calls
                         \o <<DriverCall("display", ModeValue(mode))>>,
               last_refresh_mode |-> mode]

\* display_image: the driver calls it issues, in order
display_image(self, mode, drv) ==
    IF self.simulate
    THEN [raised |-> FALSE, calls |-> <<>>, last_refresh_mode |-> mode]
    ELSE IF ~self.attached
    THEN [raised |-> FALSE, calls |-> <<>>, last_refresh_mode |-> mode]
    ELSE LET vcom == apply_vcom(drv) IN
         IF vcom.raised
         THEN [raised |-> TRUE,
               calls |-> <<DriverCall("init", 0)>> \o vcom.calls,
               last_refresh_mode |-> mode]
         ELSE [raised |-> FALSE,
               calls |-> <<DriverCall("init", 0)>> \o vcom.calls
                         \o <<DriverCall("display", ModeValue(mode)),
                              DriverCall("sleep", 0)>>,
               last_refresh_mode |-> mode]

----------------------------------------------------------------------------
(* Battery status (WeatherDisplay.get_battery_status) *)

\* charge levels the controller reports
ChargeLevels == {0, 8, 55, DefaultSoc}

\* pijuice.status.GetChargeLevel(): a dictionary with "data", one without
\* it (an error reply), or an exception
ChargeReplies ==
    {r \in [kind : {"data", "no_data", "raise"}, data : ChargeLevels] :
        r.kind # "data" => r.data = 0}

\* pijuice.status.GetStatus(): a dictionary with or without the "battery"
\* entry, or an exception
StatusReplies ==
    {r \in [kind : {"battery", "no_battery", "raise"}, is_charging : BOOLEAN] :
        r.kind # "battery" => ~r.is_charging}

\* BatteryUtils.get_battery_status: status.get("battery", {}).get("is_charging", False)
battery_is_charging(status) ==
    IF status.kind = "battery" THEN status.is_charging ELSE FALSE

BatteryStatus(soc_value, charging, warning, logged) ==
    [raised |-> FALSE, soc |-> soc_value, is_charging |-> charging,
     battery_warning |-> warning, logged |-> logged]

\* variant: a failed read puts every value back to its default
get_battery_status_AllDefaults(pijuice, charge, status) ==
    IF ~pijuice THEN BatteryStatus(DefaultSoc, FALSE, FALSE, FALSE)
    ELSE IF charge.kind # "data" \/ status.kind = "raise"
    THEN BatteryStatus(DefaultSoc, FALSE, FALSE, TRUE)
    ELSE BatteryStatus(charge.data, battery_is_charging(status), FALSE, FALSE)

\* soc, is_charging, battery_warning = 100, False, False; with a controller
\* they are read in this order inside try / except Exception
get_battery_status(pijuice, charge, status) ==
    IF ~pijuice THEN BatteryStatus(DefaultSoc, FALSE, FALSE, FALSE)
    ELSE IF charge.kind # "data"
    THEN BatteryStatus(DefaultSoc, FALSE, FALSE, TRUE)
    ELSE IF status.kind = "raise"
    THEN BatteryStatus(charge.data, FALSE, FALSE, TRUE)
    ELSE BatteryStatus(charge.data, battery_is_charging(status), FALSE, FALSE)

----------------------------------------------------------------------------
(* Application of one policy function to drawn arguments *)

NoCall == [fn |-> "none", args |-> <<>>]

NoReturn == [done |-> FALSE, value |-> "none"]

Returned(v) == [done |-> TRUE, value |-> v]

----------------------------------------------------------------------------
(* Scheduler.run *)

\* variant: the quiet-hours window is never consulted
InQuiet_NeverQuiet(flag, quiet, ts) == FALSE

\* the branches of the loop body, named for the mutation checks
InQuiet(flag, quiet, ts) ==
    IF flag = "True" THEN FALSE ELSE in_quiet_hours(ts, quiet)

\* variant: the power decision is taken at the time the cycle has ended
PowerDecisionTime_AfterCycle(iteration_now, current) == current

\* should_power_off(soc, now): now is the instant read at the loop head
PowerDecisionTime(iteration_now, current) == iteration_now

\* variant: the delay is taken as seconds
WakeInstant_Seconds(current, minutes) == current + minutes

\* now_localized() + timedelta(minutes=sleep_min)
WakeInstant(current, minutes) == current + minutes * 60

\* variant: a full refresh is due as soon as the interval has elapsed
FullRefreshNeeded_AtLeast(ts, last) == ts - last >= full_refresh_interval

FullRefreshNeeded(ts, last) == ts - last > full_refresh_interval

\* RefreshMode.FULL if full_refresh_needed else RefreshMode.GREYSCALE
RefreshModeArg(needed) == IF needed THEN "FULL" ELSE "GREYSCALE"

\* variant: the counter restarts when the back-off threshold is reached
NextErrorStreak_ResetAtBackoff(success, streak) ==
    IF success THEN 0
    ELSE IF streak + 1 >= BackoffThreshold THEN 0 ELSE streak + 1

NextErrorStreak(success, streak) == IF success THEN 0 ELSE streak + 1

\* variant: only the failure that reaches the threshold backs off
BackoffDue_OnlyAtThreshold(streak) == streak = BackoffThreshold

\* variant: the back-off starts one failure late
BackoffDue_Late(streak) == streak > BackoffThreshold

BackoffDue(streak) == streak >= BackoffThreshold

BackoffSeconds(base_minutes) == base_minutes * BackoffFactor * 60

\* variant: the loop is left after every cycle
ExitAfterCycle_Always(single_shot) == TRUE

\* variant: the single-shot flag is ignored
ExitAfterCycle_Ignored(single_shot) == FALSE

ExitAfterCycle(single_shot) == single_shot

\* locals of the loop body are dead at the loop head: they are cleared so
\* that states differing only in dead values coincide
ClearLocals ==
    /\ now' = 0
    /\ wake_resp' = NoResponse
    /\ stay_awake' = "none"
    /\ in_quiet' = FALSE
    /\ full_refresh_needed' = FALSE
    /\ fetch_in' = NoFetch
    /\ fetch_out' = NoResult
    /\ ok' = FALSE
    /\ soc' = 0
    /\ sleep_min' = 0
    /\ wake_dt' = 0

Init ==
    /\ config \in [refresh_minutes : RefreshMinutesValues,
                   poweroff_soc : {DefaultPoweroffSoc},
                   quiet_hours : QuietHoursValues]
    /\ once \in BOOLEAN
    /\ preview \in BOOLEAN
    /\ clock \in StartClocks
    /\ pc = "loop_head"
    /\ iter = 0
    /\ now = 0
    /\ wake_resp = NoResponse
    /\ stay_awake = "none"
    /\ in_quiet = FALSE
    /\ full_refresh_needed = FALSE
    /\ fetch_in = NoFetch
    /\ fetch_out = NoResult
    /\ ok = FALSE
    /\ error_streak = 0
    /\ last_full_refresh = clock
    /\ soc = 0
    /\ sleep_min = 0
    /\ wake_dt = 0
    /\ trail = <<>>
    /\ slept = 0
    /\ attempts = 0
    /\ failed_since_ok = 0
    /\ provider_calls = <<>>
    /\ set_wakeup_results = NoProviderResults
    /\ wakeup_results = <<>>
    /\ shutdown_calls = 0
    /\ call = NoCall
    /\ ret = NoReturn

\* now = now_localized(); resolve the stay-awake flag and in_quiet
ResolveStayAwake ==
    /\ pc = "loop_head"
    /\ iter < MaxIter
    /\ \E resp \in SchedulerWakeResponses :
         LET flag == should_stay_awake(resp) IN
         /\ wake_resp' = resp
         /\ stay_awake' = flag
         /\ in_quiet' = IF flag = "raise" THEN FALSE
                        ELSE InQuiet(flag, config.quiet_hours, clock)
         /\ pc' = IF flag = "raise" THEN "crashed" ELSE "check_quiet"
    /\ now' = clock
    /\ iter' = iter + 1
    /\ trail' = <<>>
    /\ slept' = 0
    /\ UNCHANGED <<call, ret, preview, set_wakeup_results,
                   config, once, clock, full_refresh_needed, fetch_in, fetch_out,
                   ok, error_streak, last_full_refresh, soc, sleep_min, wake_dt,
                   attempts, failed_since_ok, provider_calls, wakeup_results,
                   shutdown_calls>>

\* if in_quiet: time.sleep(seconds_until_end(now)); continue
QuietSleep ==
    /\ pc = "check_quiet"
    /\ in_quiet
    /\ LET secs == seconds_until_quiet_end(now, config.quiet_hours) IN
         /\ slept' = secs
         /\ clock' = clock + secs
    /\ trail' = Append(trail, "quiet_sleep")
    /\ pc' = "loop_head"
    /\ ClearLocals
    /\ UNCHANGED <<call, ret, preview, set_wakeup_results,
                   config, once, iter, error_streak, last_full_refresh, attempts,
                   failed_since_ok, provider_calls, wakeup_results, shutdown_calls>>

\* full_refresh_needed = ...; ok = display.fetch_and_render(...)
FetchAndRender ==
    /\ pc = "check_quiet"
    /\ ~in_quiet
    /\ full_refresh_needed' = FullRefreshNeeded(now, last_full_refresh)
    /\ \E inp \in SchedulerFetchInputs, d \in FetchDurations :
         LET r == fetch_and_render(inp.main, inp.aq, preview) IN
         /\ fetch_in' = inp
         /\ fetch_out' = fetch_weather(inp.main, inp.aq)
         /\ clock' = clock + d
         /\ ok' = (r = "True")
         /\ pc' = IF r = "raise" THEN "crashed" ELSE "result"
         /\ failed_since_ok' = IF r = "True" THEN 0
                               ELSE IF r = "False" THEN failed_since_ok + 1
                               ELSE failed_since_ok
    /\ attempts' = attempts + 1
    /\ trail' = Append(trail, "fetch")
    /\ wake_resp' = NoResponse
    /\ UNCHANGED <<call, ret, preview, set_wakeup_results,
                   config, once, iter, now, stay_awake, in_quiet, error_streak,
                   last_full_refresh, soc, sleep_min, wake_dt, slept,
                   provider_calls, wakeup_results, shutdown_calls>>

\* if ok: error_streak = 0; last_full_refresh = now_localized() after a full refresh
CycleSucceeded ==
    /\ pc = "result"
    /\ ok
    /\ error_streak' = NextErrorStreak(TRUE, error_streak)
    /\ last_full_refresh' = IF full_refresh_needed THEN clock ELSE last_full_refresh
    /\ pc' = "once_check"
    /\ fetch_in' = NoFetch
    /\ fetch_out' = NoResult
    /\ UNCHANGED <<call, ret, preview, set_wakeup_results,
                   config, once, clock, iter, now, wake_resp, stay_awake, in_quiet,
                   full_refresh_needed, ok, soc, sleep_min, wake_dt, trail, slept,
                   attempts, failed_since_ok, provider_calls, wakeup_results,
                   shutdown_calls>>

\* else: error_streak += 1; below the threshold the iteration goes on
CycleFailed ==
    /\ pc = "result"
    /\ ~ok
    /\ ~BackoffDue(NextErrorStreak(FALSE, error_streak))
    /\ error_streak' = NextErrorStreak(FALSE, error_streak)
    /\ pc' = "once_check"
    /\ fetch_in' = NoFetch
    /\ fetch_out' = NoResult
    /\ UNCHANGED <<call, ret, preview, set_wakeup_results,
                   config, once, clock, iter, now, wake_resp, stay_awake, in_quiet,
                   full_refresh_needed, ok, last_full_refresh, soc, sleep_min,
                   wake_dt, trail, slept, attempts, failed_since_ok,
                   provider_calls, wakeup_results, shutdown_calls>>

\* else: error_streak += 1; at the threshold: time.sleep(base * 4 * 60); continue
BackOff ==
    /\ pc = "result"
    /\ ~ok
    /\ BackoffDue(NextErrorStreak(FALSE, error_streak))
    /\ error_streak' = NextErrorStreak(FALSE, error_streak)
    /\ slept' = BackoffSeconds(config.refresh_minutes)
    /\ clock' = clock + BackoffSeconds(config.refresh_minutes)
    /\ trail' = Append(trail, "backoff")
    /\ pc' = "loop_head"
    /\ ClearLocals
    /\ UNCHANGED <<call, ret, preview, set_wakeup_results,
                   config, once, iter, last_full_refresh, attempts, failed_since_ok,
                   provider_calls, wakeup_results, shutdown_calls>>

\* if once: break
OnceExit ==
    /\ pc = "once_check"
    /\ ExitAfterCycle(once)
    /\ pc' = "returned"
    /\ trail' = Append(trail, "once_exit")
    /\ UNCHANGED <<call, ret, preview, set_wakeup_results,
                   config, once, clock, iter, now, wake_resp, stay_awake, in_quiet,
                   full_refresh_needed, fetch_in, fetch_out, ok, error_streak,
                   last_full_refresh, soc, sleep_min, wake_dt, slept, attempts,
                   failed_since_ok, provider_calls, wakeup_results, shutdown_calls>>

\* soc = get_battery_status(); sleep_min = ...; should_power_off(soc, now)
ComputeSleep ==
    /\ pc = "once_check"
    /\ ~ExitAfterCycle(once)
    /\ \E s \in SocValues :
         /\ soc' = s
         /\ sleep_min' = get_refresh_delay_minutes(config.refresh_minutes, s)
         /\ pc' = IF should_power_off(config, s, PowerDecisionTime(now, clock))
                  THEN "power_off"
                  ELSE "normal_sleep"
    /\ trail' = Append(trail, "compute_sleep")
    /\ UNCHANGED <<call, ret, preview, set_wakeup_results,
                   config, once, clock, iter, now, wake_resp, stay_awake, in_quiet,
                   full_refresh_needed, fetch_in, fetch_out, ok, error_streak,
                   last_full_refresh, wake_dt, slept, attempts, failed_since_ok,
                   provider_calls, wakeup_results, shutdown_calls>>

\* wake_dt = now_localized() + sleep_min; power_manager.schedule_wakeup(wake_dt)
ScheduleWakeup ==
    /\ pc = "power_off"
    /\ wake_dt' = WakeInstant(clock, sleep_min)
    /\ \E results \in ProviderResults :
         /\ set_wakeup_results' = results
         /\ provider_calls' = provider_calls \o ProvidersCalled(results)
         /\ wakeup_results' = Append(wakeup_results, schedule_wakeup(results))
    /\ pc' = "shutdown"
    /\ trail' = Append(trail, "schedule_wakeup")
    /\ UNCHANGED <<call, ret, preview,
                   config, once, clock, iter, now, wake_resp, stay_awake, in_quiet,
                   full_refresh_needed, fetch_in, fetch_out, ok, error_streak,
                   last_full_refresh, soc, sleep_min, slept, attempts,
                   failed_since_ok, shutdown_calls>>

\* variant: the break after shutdown is missing
Shutdown_NoBreak ==
    /\ pc = "shutdown"
    /\ pc' = "normal_sleep"
    /\ shutdown_calls' = shutdown_calls + 1
    /\ trail' = Append(trail, "shutdown")
    /\ UNCHANGED <<call, ret, preview, set_wakeup_results,
                   config, once, clock, iter, now, wake_resp, stay_awake, in_quiet,
                   full_refresh_needed, fetch_in, fetch_out, ok, error_streak,
                   last_full_refresh, soc, sleep_min, wake_dt, slept, attempts,
                   failed_since_ok, provider_calls, wakeup_results>>

\* variant: shutdown is skipped when no provider accepted the wake-up
Shutdown_OnlyIfScheduled ==
    /\ pc = "shutdown"
    /\ pc' = "returned"
    /\ shutdown_calls' = IF wakeup_results[Len(wakeup_results)]
                         THEN shutdown_calls + 1 ELSE shutdown_calls
    /\ trail' = Append(trail, "shutdown")
    /\ UNCHANGED <<call, ret, preview, set_wakeup_results,
                   config, once, clock, iter, now, wake_resp, stay_awake, in_quiet,
                   full_refresh_needed, fetch_in, fetch_out, ok, error_streak,
                   last_full_refresh, soc, sleep_min, wake_dt, slept, attempts,
                   failed_since_ok, provider_calls, wakeup_results>>

\* power_manager.shutdown(); break
Shutdown ==
    /\ pc = "shutdown"
    /\ \E outcome \in ShutdownOutcomes :
         pc' = IF shutdown(outcome) THEN "returned" ELSE "crashed"
    /\ shutdown_calls' = shutdown_calls + 1
    /\ trail' = Append(trail, "shutdown")
    /\ UNCHANGED <<call, ret, preview, set_wakeup_results,
                   config, once, clock, iter, now, wake_resp, stay_awake, in_quiet,
                   full_refresh_needed, fetch_in, fetch_out, ok, error_streak,
                   last_full_refresh, soc, sleep_min, wake_dt, slept, attempts,
                   failed_since_ok, provider_calls, wakeup_results>>

\* time.sleep(sleep_min * 60)
NormalSleep ==
    /\ pc = "normal_sleep"
    /\ slept' = sleep_min * 60
    /\ clock' = clock + sleep_min * 60
    /\ trail' = Append(trail, "normal_sleep")
    /\ pc' = "loop_head"
    /\ ClearLocals
    /\ UNCHANGED <<call, ret, preview, set_wakeup_results,
                   config, once, iter, error_streak, last_full_refresh, attempts,
                   failed_since_ok, provider_calls, wakeup_results, shutdown_calls>>

Next ==
    \/ ResolveStayAwake
    \/ QuietSleep
    \/ FetchAndRender
    \/ CycleSucceeded
    \/ CycleFailed
    \/ BackOff
    \/ OnceExit
    \/ ComputeSleep
    \/ ScheduleWakeup
    \/ Shutdown
    \/ NormalSleep

Spec == Init /\ [][Next]_vars

TypeOK ==
    /\ pc \in {"loop_head", "check_quiet", "result", "once_check", "power_off",
               "shutdown", "normal_sleep", "returned", "crashed"}
    /\ error_streak \in Nat
    /\ clock \in Nat

----------------------------------------------------------------------------
(* The functions on their own: arguments are drawn, one function is applied *)

HourValues == 0..23

\* offsets inside an hour: its first, second and last second
SecondOffsets == {0, 1, 3599}

Times == {h * 3600 + o : h \in HourValues, o \in SecondOffsets}

\* every window the QuietHours class of rpiweather.config accepts
AllWindows ==
    {NoQuietHours}
    \cup {[set |-> TRUE, start |-> s, end |-> e] : s, e \in HourValues}

EdgeHours == {0, 1, 5, 6, 22, 23}

\* configurations handed to BatteryManager: loaded ones
PolicyConfigs ==
    [poweroff_soc : {DefaultPoweroffSoc, 10},
     quiet_hours : {w \in LoadedWindows :
                      w.start \in EdgeHours /\ w.end \in EdgeHours}]

PowerOffSocInputs == {7, 8, 9, 10, 11, 50, DefaultSoc}

\* wind speeds from calm to beyond the scale, in half miles per hour
SpeedInputs == 0..(2 * MaxSpeed)

\* bearings from a quarter turn below zero to beyond a full turn, in
\* quarter degrees
BearingInputs == (-(4 * 90))..(4 * MaxBearing)

\* charge levels handed to the delay computation, beyond 0..100 on both sides
SocInputs == (-10)..MaxSocInput

sched_vars == <<config, once, preview, clock, pc, iter, now, wake_resp, stay_awake,
                in_quiet, full_refresh_needed, fetch_in, fetch_out, ok,
                error_streak, last_full_refresh, soc, sleep_min, wake_dt, trail,
                slept, attempts, failed_since_ok, provider_calls,
                set_wakeup_results, wakeup_results, shutdown_calls>>

\* no scheduler is running
SchedulerNotStarted ==
    /\ config = [refresh_minutes |-> DefaultRefreshMinutes,
                 poweroff_soc |-> DefaultPoweroffSoc,
                 quiet_hours |-> NoQuietHours]
    /\ once = FALSE
    /\ preview = FALSE
    /\ clock = 0
    /\ pc = "not_started"
    /\ iter = 0
    /\ now = 0
    /\ wake_resp = NoResponse
    /\ stay_awake = "none"
    /\ in_quiet = FALSE
    /\ full_refresh_needed = FALSE
    /\ fetch_in = NoFetch
    /\ fetch_out = NoResult
    /\ ok = FALSE
    /\ error_streak = 0
    /\ last_full_refresh = 0
    /\ soc = 0
    /\ sleep_min = 0
    /\ wake_dt = 0
    /\ trail = <<>>
    /\ slept = 0
    /\ attempts = 0
    /\ failed_since_ok = 0
    /\ provider_calls = <<>>
    /\ set_wakeup_results = NoProviderResults
    /\ wakeup_results = <<>>
    /\ shutdown_calls = 0

CallInit ==
    /\ SchedulerNotStarted
    /\ ret = NoReturn
    /\ \/ call \in [fn : {"in_quiet_hours", "seconds_until_quiet_end"},
                     args : [ts : Times, quiet : AllWindows]]
       \/ call \in [fn : {"should_power_off"},
                     args : [cfg : PolicyConfigs, soc : PowerOffSocInputs,
                             ts : Times]]
       \/ call \in [fn : {"get_refresh_delay_minutes"},
                     args : [base_minutes : 1..MaxBase, soc : SocInputs]]
       \/ call \in [fn : {"load"}, args : [quiet_hours : RawWindows]]
       \/ call \in [fn : {"beaufort_from_speed"},
                     args : [speed_halves : SpeedInputs]]
       \/ call \in [fn : {"deg_to_cardinal"},
                     args : [deg_quarters : BearingInputs]]
       \/ call \in [fn : {"display_image"},
                     args : [simulate : BOOLEAN, epd_driver : BOOLEAN,
                             import_ok : BOOLEAN, mode : RefreshModes,
                             driver : DriverAnswers]]
       \/ call \in [fn : {"get_battery_status"},
                     args : [pijuice : BOOLEAN, charge : ChargeReplies,
                             status : StatusReplies]]
       \/ call \in [fn : {"fetch_weather"}, args : FetchInputs]
       \/ call \in [fn : {"fetch_and_render"},
                     args : [fetch : FetchInputs, preview : BOOLEAN]]

Apply_in_quiet_hours ==
    /\ call.fn = "in_quiet_hours"
    /\ ~ret.done
    /\ ret' = Returned(in_quiet_hours(call.args.ts, call.args.quiet))
    /\ UNCHANGED <<call, sched_vars>>

Apply_seconds_until_quiet_end ==
    /\ call.fn = "seconds_until_quiet_end"
    /\ ~ret.done
    /\ ret' = Returned(seconds_until_quiet_end(call.args.ts, call.args.quiet))
    /\ UNCHANGED <<call, sched_vars>>

Apply_should_power_off ==
    /\ call.fn = "should_power_off"
    /\ ~ret.done
    /\ ret' = Returned(should_power_off(call.args.cfg, call.args.soc, call.args.ts))
    /\ UNCHANGED <<call, sched_vars>>

Apply_get_refresh_delay_minutes ==
    /\ call.fn = "get_refresh_delay_minutes"
    /\ ~ret.done
    /\ ret' = Returned(get_refresh_delay_minutes(call.args.base_minutes,
                                                 call.args.soc))
    /\ UNCHANGED <<call, sched_vars>>

Apply_load ==
    /\ call.fn = "load"
    /\ ~ret.done
    /\ ret' = Returned(load(call.args.quiet_hours))
    /\ UNCHANGED <<call, sched_vars>>

Apply_beaufort_from_speed ==
    /\ call.fn = "beaufort_from_speed"
    /\ ~ret.done
    /\ ret' = Returned(beaufort_from_speed(call.args.speed_halves))
    /\ UNCHANGED <<call, sched_vars>>

Apply_deg_to_cardinal ==
    /\ call.fn = "deg_to_cardinal"
    /\ ~ret.done
    /\ ret' = Returned(deg_to_cardinal(call.args.deg_quarters))
    /\ UNCHANGED <<call, sched_vars>>

Apply_display_image ==
    /\ call.fn = "display_image"
    /\ ~ret.done
    /\ ret' = Returned(display_image(
                 IT8951Display_init(call.args.simulate, call.args.epd_driver,
                                    call.args.import_ok),
                 call.args.mode, call.args.driver))
    /\ UNCHANGED <<call, sched_vars>>

Apply_get_battery_status ==
    /\ call.fn = "get_battery_status"
    /\ ~ret.done
    /\ ret' = Returned(get_battery_status(call.args.pijuice, call.args.charge,
                                          call.args.status))
    /\ UNCHANGED <<call, sched_vars>>

Apply_fetch_weather ==
    /\ call.fn = "fetch_weather"
    /\ ~ret.done
    /\ ret' = Returned(fetch_weather(call.args.main, call.args.aq))
    /\ UNCHANGED <<call, sched_vars>>

Apply_fetch_and_render ==
    /\ call.fn = "fetch_and_render"
    /\ ~ret.done
    /\ ret' = Returned(FetchAndRenderEffects(call.args.fetch.main,
                                             call.args.fetch.aq,
                                             call.args.preview))
    /\ UNCHANGED <<call, sched_vars>>

CallNext ==
    \/ Apply_in_quiet_hours
    \/ Apply_seconds_until_quiet_end
    \/ Apply_should_power_off
    \/ Apply_get_refresh_delay_minutes
    \/ Apply_load
    \/ Apply_beaufort_from_speed
    \/ Apply_deg_to_cardinal
    \/ Apply_display_image
    \/ Apply_get_battery_status
    \/ Apply_fetch_weather
    \/ Apply_fetch_and_render

CallSpec == CallInit /\ [][CallNext]_vars

----------------------------------------------------------------------------
(* Properties *)

Terminated == pc \in {"returned", "crashed"}

InTrail(step) == \E i \in 1..Len(trail) : trail[i] = step

\* C1: a failed cycle adds one to the failure streak; when the streak is
\* then at least 3 the loop sleeps 4 x refresh_minutes and restarts the
\* iteration without the single-shot check, the sleep computation or the
\* power-off decision; with the streak at 1 or 2 the iteration goes on to
\* the single-shot check and the sleep computation without sleeping.
C1_FailureBackoff ==
    [][(pc = "result" /\ ~ok) =>
          /\ error_streak' = error_streak + 1
          /\ IF error_streak' >= 3
             THEN /\ pc' = "loop_head"
                  /\ slept' = 4 * config.refresh_minutes * 60
                  /\ clock' = clock + 4 * config.refresh_minutes * 60
                  /\ trail' = <<"fetch", "backoff">>
                  /\ wakeup_results' = wakeup_results
                  /\ shutdown_calls' = shutdown_calls
             ELSE /\ pc' = "once_check"
                  /\ clock' = clock
                  /\ slept' = 0
                  /\ trail' = <<"fetch">>]_vars

C1_Witness ==
    /\ pc = "loop_head"
    /\ trail = <<"fetch", "backoff">>
    /\ error_streak = 4
    /\ slept = 28800

\* C2: outside the handling of a cycle's result, error_streak equals the
\* number of cycles that failed since the last successful cycle (or since
\* start); back-off sleeps and quiet-hours sleeps leave it as it is.
C2_StreakCountsFailures ==
    pc # "result" => error_streak = failed_since_ok

C2_Witness ==
    /\ pc = "loop_head"
    /\ trail = <<"quiet_sleep">>
    /\ error_streak = 3
    /\ failed_since_ok = 3

\* C3: with the stay-awake flag false and now inside the quiet-hours
\* window the iteration sleeps exactly seconds_until_end(now) and restarts:
\* no fetch_and_render, failure streak and last_full_refresh unchanged, no
\* sleep computation and no power-off decision.
C3_QuietIteration ==
    [][(/\ pc = "check_quiet"
        /\ stay_awake = "False"
        /\ in_quiet_hours(now, config.quiet_hours)) =>
          /\ pc' = "loop_head"
          /\ slept' = seconds_until_quiet_end(now, config.quiet_hours)
          /\ clock' = clock + seconds_until_quiet_end(now, config.quiet_hours)
          /\ trail' = <<"quiet_sleep">>
          /\ attempts' = attempts
          /\ error_streak' = error_streak
          /\ last_full_refresh' = last_full_refresh
          /\ wakeup_results' = wakeup_results
          /\ shutdown_calls' = shutdown_calls]_vars

C3_Witness ==
    /\ pc = "loop_head"
    /\ trail = <<"quiet_sleep">>
    /\ config.quiet_hours = [set |-> TRUE, start |-> 1, end |-> 5]
    /\ slept = 9000
    /\ clock = 5 * 3600
    /\ attempts = 0

\* C4: in an iteration whose stay-awake flag is true there is no
\* quiet-hours sleep and a power-off is never caused by quiet hours: the
\* power-off branch is entered only for soc <= poweroff_soc.
C4_StayAwakeSuppressesQuietHours ==
    stay_awake = "True" =>
        /\ ~InTrail("quiet_sleep")
        /\ pc \in {"power_off", "shutdown"} => soc <= config.poweroff_soc

C6_PowerOffSequence ==
    [][/\ pc = "power_off" =>
            /\ pc' = "shutdown"
            /\ Len(wakeup_results') = Len(wakeup_results) + 1
            /\ shutdown_calls' = shutdown_calls
       /\ pc = "shutdown" =>
            /\ Len(wakeup_results) = 1
            /\ shutdown_calls' = shutdown_calls + 1
            /\ Terminated'
            /\ clock' = clock
            /\ attempts' = attempts
       /\ shutdown_calls' # shutdown_calls => pc = "shutdown"
       /\ ~Terminated]_vars

C6_Witness ==
    /\ pc = "returned"
    /\ shutdown_calls = 1
    /\ wakeup_results = <<FALSE>>
    /\ provider_calls = <<1, 2>>

MainFailed(main) ==
    \/ main.net # "ok"
    \/ main.status # 200
    \/ main.shape # "object_valid"

\* C8: for every failing outcome of the weather fetch fetch_and_render
\* returns False instead of raising, so the loop is not ended by it.
C8_FetchFailureNeverCrashes ==
    (fetch_in # NoFetch /\ MainFailed(fetch_in.main)) =>
        (pc = "result" /\ ~ok)

AirQualityFailed(aq) ==
    \/ aq.net # "ok"
    \/ aq.status # 200
    \/ aq.shape # "full"
    \/ aq.aqi \notin 1..5
    \/ aq.components # "valid"

\* C9: when the main request returns 200 with a valid body, fetch_weather
\* returns a response for every outcome of the air-quality request, with
\* the label "N/A" when that request failed.
C9_AirQualityBestEffort ==
    (fetch_in # NoFetch /\ ~MainFailed(fetch_in.main)) =>
        /\ fetch_out.raised = ""
        /\ AirQualityFailed(fetch_in.aq) => fetch_out.aqi = "N/A"

\* C10: should_stay_awake never raises and returns True only for status
\* 200 with a JSON object whose key "awake" holds boolean true.
C10_StayAwakeFailClosed ==
    wake_resp # NoResponse =>
        /\ stay_awake \in {"True", "False"}
        /\ stay_awake = "True" <=>
              (/\ wake_resp.net = "ok"
               /\ wake_resp.status = 200
               /\ wake_resp.shape = "object"
               /\ wake_resp.awake = "true")

\* C11: schedule_wakeup calls the providers in list order, stops at the
\* first one whose set_wakeup returns true and then returns true; it
\* returns false exactly when every provider returned false.
C11_WakeupProviderChain ==
    wakeup_results # <<>> =>
        LET returned == wakeup_results[Len(wakeup_results)]
            n == Len(provider_calls)
        IN  /\ n >= 1
            /\ \A k \in 1..n : provider_calls[k] = k
            /\ \A k \in 1..(n - 1) : ~set_wakeup_results[provider_calls[k]]
            /\ returned => set_wakeup_results[provider_calls[n]]
            /\ ~returned => n = NumProviders
            /\ ~returned <=> \A i \in 1..NumProviders : ~set_wakeup_results[i]

C11_Witness ==
    /\ pc = "shutdown"
    /\ set_wakeup_results = <<FALSE, TRUE>>
    /\ provider_calls = <<1, 2>>
    /\ wakeup_results = <<TRUE>>

\* C12: shutdown returns normally for every outcome of the power-off
\* command, so the run is never ended by an exception from it.
C12_ShutdownNeverRaises ==
    shutdown_calls > 0 => pc # "crashed"

\* C13: in a non-quiet iteration the mode passed to fetch_and_render is
\* FULL exactly when now - last_full_refresh exceeds the full-refresh
\* interval, else GREYSCALE; last_full_refresh changes only when a cycle
\* succeeded with FULL requested (then it becomes the current time), and
\* failed cycles, greyscale cycles, back-off and quiet sleeps keep it.
C13_FullRefreshMode ==
    [][/\ (pc = "check_quiet" /\ ~in_quiet) =>
            /\ attempts' = attempts + 1
            /\ RefreshModeArg(full_refresh_needed') =
                  IF now - last_full_refresh > 6 * 3600 THEN "FULL"
                                                         ELSE "GREYSCALE"
            /\ last_full_refresh' = last_full_refresh
       /\ (pc = "result" /\ ok /\ RefreshModeArg(full_refresh_needed) = "FULL") =>
            last_full_refresh' = clock
       /\ (pc = "result" /\ ok /\ RefreshModeArg(full_refresh_needed) = "GREYSCALE") =>
            last_full_refresh' = last_full_refresh
       /\ (pc = "result" /\ ~ok) => last_full_refresh' = last_full_refresh
       /\ pc # "result" => last_full_refresh' = last_full_refresh]_vars

C13_Witness ==
    /\ pc = "once_check"
    /\ ok
    /\ full_refresh_needed
    /\ last_full_refresh = clock
    /\ last_full_refresh = now + 1800
    /\ attempts > 1

\* the hours a window covers, read off the clock face
WindowHours(q) ==
    IF q.start < q.end THEN q.start..(q.end - 1)
    ELSE (q.start..23) \cup (0..(q.end - 1))

WindowActive(q, ts) == q.set /\ ((ts \div 3600) % 24) \in WindowHours(q)

\* C14: should_power_off(soc, now) is true exactly when soc <= poweroff_soc
\* or a quiet-hours window is configured and active at now: true at or
\* below the threshold whatever the time, false above it outside quiet hours.
C14_ShouldPowerOff ==
    (call.fn = "should_power_off" /\ ret.done) =>
        LET a == call.args
            active == WindowActive(a.cfg.quiet_hours, a.ts)
        IN  /\ ret.value <=> (a.soc <= a.cfg.poweroff_soc \/ active)
            /\ a.soc <= a.cfg.poweroff_soc => ret.value
            /\ (a.soc > a.cfg.poweroff_soc /\ ~active) => ~ret.value

C14_Witness ==
    /\ call.fn = "should_power_off"
    /\ ret.done
    /\ call.args.soc = 50
    /\ call.args.cfg.poweroff_soc = 10
    /\ call.args.cfg.quiet_hours = [set |-> TRUE, start |-> 1, end |-> 5]
    /\ call.args.ts = 4 * 3600 + 3599
    /\ ret.value = TRUE

C17_RefreshDelayTiers ==
    (call.fn = "get_refresh_delay_minutes" /\ ret.done) =>
        LET b == call.args.base_minutes
            s == call.args.soc
            r == ret.value
        IN  /\ s <= 5 => r = b * 4
            /\ (5 < s /\ s <= 15) => r = b * 3
            /\ (15 < s /\ s <= 25) => r = b * 2
            /\ (25 < s /\ s <= 50) => (2 * r <= 3 * b /\ 3 * b < 2 * r + 2)
            /\ s > 50 => r = b
            /\ b = 15 =>
                  /\ s \in {100, 75} => r = 15
                  /\ s = 50 => r = 22
                  /\ s = 25 => r = 30
                  /\ s = 15 => r = 45
                  /\ s \in {5, 0} => r = 60

C17_Witness ==
    /\ call.fn = "get_refresh_delay_minutes"
    /\ ret.done
    /\ call.args.base_minutes = 15
    /\ call.args.soc = 50
    /\ ret.value = 22

WindowValid(q) ==
    q.start \in 0..23 /\ q.end \in 0..23 /\ q.start # q.end

\* C18: a window with start = end or an hour outside 0..23 is rejected
\* when the configuration is loaded, so every window a loaded
\* configuration hands to the power policy has unequal hours in 0..23.
C18_QuietHoursValidated ==
    /\ (call.fn = "load" /\ ret.done) =>
          LET raw == call.args.quiet_hours
          IN  /\ (raw.set /\ ~WindowValid(raw)) => ret.value.raised # ""
              /\ (ret.value.raised = "" /\ ret.value.quiet_hours.set) =>
                    WindowValid(ret.value.quiet_hours)
    /\ (call.fn = "should_power_off" /\ call.args.cfg.quiet_hours.set) =>
          WindowValid(call.args.cfg.quiet_hours)

C18_Witness ==
    /\ call.fn = "load"
    /\ ret.done
    /\ call.args.quiet_hours = [set |-> TRUE, start |-> 6, end |-> 6]
    /\ ret.value.raised = "RuntimeError"

\* C19: fetch_weather raises a WeatherAPIError exactly for a non-200
\* response and for a failed network call; for a non-200 response the code
\* is the status and the message is the body's "message", else the table
\* entry of the status, else the response text; a failed network call
\* gives a NetworkError with code 0.
C19_FetchErrorClassification ==
    (call.fn = "fetch_weather" /\ ret.done) =>
        LET m == call.args.main
            r == ret.value
        IN  /\ (r.raised \in WeatherAPIErrors) <=>
                  (m.net # "ok" \/ m.status # 200)
            /\ (m.net = "ok" /\ m.status # 200) =>
                  /\ r.raised = "WeatherAPIError"
                  /\ r.code = m.status
                  /\ r.message =
                        IF m.has_message THEN "body_message"
                        ELSE IF m.status \in HttpErrorMapKeys THEN "table_entry"
                        ELSE "response_text"
            /\ m.net # "ok" => (r.raised = "NetworkError" /\ r.code = 0)

\* C20: with preview=True fetch_and_render calls the display driver
\* never and renders no error screen, for a successful and for a failed
\* fetch; with preview=False a failed fetch renders and displays the error
\* screen and a successful fetch displays the dashboard once.
C20_PreviewTouchesNoPanel ==
    (call.fn = "fetch_and_render" /\ ret.done) =>
        LET f == fetch_weather(call.args.fetch.main, call.args.fetch.aq)
            e == ret.value
        IN  /\ call.args.preview =>
                  (e.display_calls = 0 /\ e.error_screens = 0)
            /\ (~call.args.preview /\ f.raised \in WeatherAPIErrors) =>
                  (e.error_screens = 1 /\ e.display_calls = 1)
            /\ (~call.args.preview /\ f.raised = "") =>
                  (e.display_calls = 1 /\ e.error_screens = 0)

\* C21: beaufort_from_speed returns the smallest index i in 0..11 with
\* speed < thresholds[i] and 12 at or above 73; the result is in 0..12 and
\* non-decreasing in speed (0.5 gives 0, 1.0 gives 1, 73.0 and 90.0 give 12).
C21_BeaufortScale ==
    (call.fn = "beaufort_from_speed" /\ ret.done) =>
        LET thresholds == <<1, 4, 7, 12, 18, 24, 31, 38, 46, 54, 63, 73>>
            sp == call.args.speed_halves
            r == ret.value
        IN  /\ r \in 0..12
            /\ \A i \in 0..11 : i < r => sp >= 2 * thresholds[i + 1]
            /\ r < 12 => sp < 2 * thresholds[r + 1]
            /\ r = 12 <=> sp >= 2 * 73
            /\ \A lower \in SpeedInputs :
                  lower <= sp => beaufort_from_speed(lower) <= r
            /\ sp = 1 => r = 0
            /\ sp = 2 => r = 1
            /\ sp \in {2 * 73, 2 * 90} => r = 12

C21_Witness ==
    /\ call.fn = "beaufort_from_speed"
    /\ ret.done
    /\ call.args.speed_halves = 2 * 73
    /\ ret.value = 12

\* Python's round(n / d) for d > 0: to the nearest integer, a tie to the
\* even one
RoundHalfEven(n, d) ==
    LET f == n \div d
        twice == 2 * (n % d)
    IN  IF twice < d THEN f
        ELSE IF twice > d THEN f + 1
        ELSE IF f % 2 = 0 THEN f ELSE f + 1

CompassTable ==
    <<"N", "NNE", "NE", "ENE", "E", "ESE", "SE", "SSE",
      "S", "SSW", "SW", "WSW", "W", "WNW", "NW", "NNW">>

\* C22 as stated: the compass point is the table entry at index
\* round(deg / 22.5) mod 16 for every bearing, the bearings half-way
\* between two points included.
C22_Original ==
    (call.fn = "deg_to_cardinal" /\ ret.done) =>
        ret.value = CompassTable[(RoundHalfEven(call.args.deg_quarters, 90) % 16) + 1]

\* C22 (amended): the compass point is the table entry at index
\* floor(deg / 22.5 + 1/2) mod 16: a bearing half-way between two points
\* goes to the clockwise one (11.25 gives NNE); 0 gives N, 45 gives NE,
\* 359 gives N.
C22_CompassPoint ==
    (call.fn = "deg_to_cardinal" /\ ret.done) =>
        LET q == call.args.deg_quarters
        IN  /\ ret.value = CompassTable[(((q + 45) \div 90) % 16) + 1]
            /\ q = 0 => ret.value = "N"
            /\ q = 4 * 45 => ret.value = "NE"
            /\ q = 4 * 359 => ret.value = "N"
            /\ q = 45 => ret.value = "NNE"

C22_Witness ==
    /\ call.fn = "deg_to_cardinal"
    /\ ret.done
    /\ call.args.deg_quarters = 45
    /\ ret.value = "NNE"

\* C23: a power-off with soc > poweroff_soc happens only in an iteration
\* whose stay-awake flag was true; with the flag false an iteration that
\* starts inside quiet hours never reaches the power decision; and the
\* power decision is evaluated at the instant 'now' read at the loop head
\* and tested there for quiet hours.
C23_QuietPowerOffNeedsStayAwake ==
    [][/\ (pc' \in {"power_off", "shutdown"} /\ soc' > config'.poweroff_soc) =>
            /\ stay_awake' = "True"
            /\ in_quiet_hours(now', config'.quiet_hours)
       /\ (/\ pc = "check_quiet"
           /\ stay_awake = "False"
           /\ in_quiet_hours(now, config.quiet_hours)) =>
            (pc' = "loop_head" /\ trail' = <<"quiet_sleep">>)
       /\ (pc = "loop_head" /\ pc' # "loop_head") => now' = clock
       /\ (pc # "loop_head" /\ pc' # "loop_head") => now' = now
       /\ (pc = "once_check" /\ pc' # "returned") =>
            (pc' = "power_off" <=> should_power_off(config, soc', now))]_vars

C23_Witness ==
    /\ pc = "shutdown"
    /\ soc > config.poweroff_soc
    /\ stay_awake = "True"
    /\ clock > now

CountIn(steps, step) == Cardinality({i \in 1..Len(steps) : steps[i] = step})

Endings(steps) ==
    CountIn(steps, "quiet_sleep") + CountIn(steps, "backoff")
    + CountIn(steps, "normal_sleep") + CountIn(steps, "shutdown")

\* C26: with once false the run returns only through the power-off branch:
\* the loop is left only by the shutdown that follows a true
\* should_power_off, a false one leads to the in-process sleep and the
\* next iteration; an iteration calls fetch_and_render at most once and
\* ends in exactly one of quiet-hours sleep, back-off sleep, normal sleep
\* or power-off.
C26_LoopExitsOnlyByPowerOff ==
    [][~once =>
        /\ (pc' = "returned" /\ pc # "returned") =>
              /\ pc = "shutdown"
              /\ should_power_off(config, soc, now)
              /\ trail' = <<"fetch", "compute_sleep", "schedule_wakeup", "shutdown">>
        /\ (pc = "once_check" /\ ~should_power_off(config, soc', now)) =>
              pc' = "normal_sleep"
        /\ pc = "normal_sleep" => pc' = "loop_head"
        /\ CountIn(trail', "fetch") <= 1
        /\ Endings(trail') <= 1
        /\ ((pc' = "loop_head" /\ pc # "loop_head") \/ pc' = "returned") =>
              Endings(trail') = 1
        /\ (pc' \notin {"loop_head", "returned", "crashed"}) =>
              Endings(trail') = 0]_vars

C26_Witness ==
    /\ ~once
    /\ pc = "returned"
    /\ iter = 3
    /\ attempts = 2
    /\ trail = <<"fetch", "compute_sleep", "schedule_wakeup", "shutdown">>

\* C27: on a power-off the wake instant handed to schedule_wakeup is the
\* time at which the power-off is decided plus
\* get_refresh_delay_minutes(refresh_minutes, soc) minutes, soc being the
\* reading taken after the cycle; it is strictly later than the shutdown
\* request and the delay is the one the in-process sleep would have used,
\* whether or not quiet hours last longer.
C27_WakeInstant ==
    /\ pc = "shutdown" =>
          /\ wake_dt = clock
                + get_refresh_delay_minutes(config.refresh_minutes, soc) * 60
          /\ wake_dt = clock + sleep_min * 60
          /\ wake_dt > clock
          /\ wake_dt >= clock + config.refresh_minutes * 60
    /\ (InTrail("shutdown") /\ Terminated) => wake_dt > clock
    /\ pc = "normal_sleep" =>
          sleep_min = get_refresh_delay_minutes(config.refresh_minutes, soc)

C27_Witness ==
    /\ pc = "returned"
    /\ InTrail("shutdown")
    /\ soc = 12
    /\ clock > now
    /\ wake_dt = clock + 3 * config.refresh_minutes * 60
    /\ in_quiet_hours(wake_dt, config.quiet_hours)

\* C28: for every base >= 1 and every integer soc the delay is between
\* base and 4 * base, never zero, and no lower soc gives a shorter delay.
C28_RefreshDelayRange ==
    (call.fn = "get_refresh_delay_minutes" /\ ret.done) =>
        LET b == call.args.base_minutes
            r == ret.value
        IN  /\ b <= r /\ r <= 4 * b
            /\ r >= 1
            /\ \A lower \in SocInputs :
                  lower <= call.args.soc =>
                     get_refresh_delay_minutes(b, lower) >= r

C28_Witness ==
    /\ call.fn = "get_refresh_delay_minutes"
    /\ ret.done
    /\ call.args.base_minutes = 1
    /\ call.args.soc = 26
    /\ ret.value = 1

Methods(calls) == [i \in 1..Len(calls) |-> calls[i].method]

\* the calls other than the read-back of the voltage
WithoutReadBack(calls) == SelectSeq(calls, LAMBDA c : c.method # "get_vcom")

C30_BatteryStatusNeverRaises ==
    (call.fn = "get_battery_status" /\ ret.done) =>
        LET a == call.args
            r == ret.value
            charge_failed == a.charge.kind \in {"no_data", "raise"}
            status_failed == a.status.kind = "raise"
        IN  /\ ~r.raised
            /\ r.soc \in Int
            /\ ~a.pijuice =>
                  (r.soc = 100 /\ ~r.is_charging /\ ~r.battery_warning
                   /\ ~r.logged)
            /\ (a.pijuice /\ charge_failed) =>
                  (r.logged /\ r.soc = 100 /\ ~r.is_charging
                   /\ ~r.battery_warning)
            /\ (a.pijuice /\ ~charge_failed /\ status_failed) =>
                  (r.logged /\ r.soc = a.charge.data /\ ~r.is_charging
                   /\ ~r.battery_warning)
            /\ (a.pijuice /\ ~charge_failed /\ ~status_failed) =>
                  (~r.logged /\ r.soc = a.charge.data
                   /\ r.is_charging = (a.status.kind = "battery"
                                        /\ a.status.is_charging))

C30_Witness ==
    /\ call.fn = "get_battery_status"
    /\ ret.done
    /\ call.args.pijuice
    /\ call.args.charge = [kind |-> "data", data |-> 8]
    /\ call.args.status.kind = "raise"
    /\ ret.value.soc = 8
    /\ ret.value.logged

====
